---- MODULE Spec2Model ----
(***************************************************************************)
(* A model of the PDF question-answering backend:                          *)
(*   app/main.py       the FastAPI application and its /upload and /ask    *)
(*                     handlers,                                           *)
(*   app/services.py   index_pdf_text and answer_question,                 *)
(*   app/keep_alive.py the self-ping loop and lifespan_manager.            *)
(*                                                                         *)
(* The vector store, the embedding model and the chat model are external.  *)
(* The store is a set of chunk records; a write of documents proceeds in   *)
(* sub-batches of batch_size, each of which may raise; a search may raise; *)
(* the chat model may raise.  A document id 0 and a question 0 stand for   *)
(* the empty string, uuid4 values are the naturals 1, 2, ... in the order  *)
(* they are generated (uuid4 collisions are not modelled).                 *)
(*                                                                         *)
(* Requests interleave at the calls to the external services: several      *)
(* worker processes may serve the same table.                              *)
(***************************************************************************)
EXTENDS Integers, Sequences, FiniteSets, TLC

VARIABLES
    phase,               \* lifecycle of the served application
    env,                 \* the process environment (os.getenv)
    store,               \* rows of the vector-store table
    issued,              \* the uuid4 values generated so far, in order
    reported,            \* document ids returned in a 200 response of /upload
    nUploads,            \* /upload requests received
    nAsks,               \* /ask requests received
    up,                  \* the /upload request in progress or last finished
    ask,                 \* the /ask request in progress or last finished
    keep_alive_task_ref, \* keep_alive.keep_alive_task_ref
    ka,                  \* the keep-alive task: position and counters
    ls                   \* lifespan_manager: position

vars == <<phase, env, store, issued, reported, nUploads, nAsks, up, ask,
          keep_alive_task_ref, ka, ls>>

reqVars == <<store, issued, reported, nUploads, nAsks, up, ask>>
kaVars == <<keep_alive_task_ref, ka, ls>>

----------------------------------------------------------------------------
(* Bounds of the model *)

MaxUploads == 2
MaxAsks == 1
MaxChunks == 21
MaxPings == 3

(* Program constants *)

BATCH_SIZE == 20
TOP_K == 3

NOT_FOUND_MSG == "I could not find any relevant information in the specified document to answer your question."
RETRIEVAL_ERROR_MSG == "An error occurred while trying to retrieve information for the specified document."
LLM_ANSWER == "result"

Min(a, b) == IF a < b THEN a ELSE b

----------------------------------------------------------------------------
(* Inputs *)

ContentTypes == {"application/pdf", "text/plain"}
Filenames == {"a.pdf"}

\* An uploaded body: zero bytes, bytes that are no PDF, a PDF without text,
\* a PDF whose text is white space only, or a PDF whose text splits into n
\* chunks.
PdfBodies ==
    {[kind |-> k, n |-> 0] : k \in {"empty", "garbage", "textless", "blank"}}
    \cup {[kind |-> "text", n |-> n] : n \in {1, BATCH_SIZE, MaxChunks}}

\* A request with another content type is refused whatever its body.
UploadInputs ==
    [content_type : {"application/pdf"}, body : PdfBodies, filename : Filenames]
    \cup [content_type : ContentTypes \ {"application/pdf"},
          body : {[kind |-> "text", n |-> 1]}, filename : Filenames]

\* Document ids a client may ask about: "" (0), every id that can be
\* generated, and one that never is.
AskDocIds == 0 .. (MaxUploads + 1)
Questions == 0 .. 2

----------------------------------------------------------------------------
(* services.py: text processing *)

\* The text of a PDF is a sequence of tokens: 0 is white space, i > 0 is
\* the i-th piece of text (one chunk's worth).
extract_text_from_pdf_bytes(pdf_bytes) ==
    CASE pdf_bytes.kind = "garbage" -> [exc |-> "ValueError", raw_text |-> <<>>]
      [] pdf_bytes.kind = "textless" -> [exc |-> "none", raw_text |-> <<>>]
      [] pdf_bytes.kind = "blank" -> [exc |-> "none", raw_text |-> <<0>>]
      [] OTHER -> [exc |-> "none", raw_text |-> [i \in 1 .. pdf_bytes.n |-> i]]

IsText(t) == t /= 0

split_text(raw_text) == SelectSeq(raw_text, IsText)

\* str(uuid.uuid4()): a value no earlier call returned.
NewDocId(ids) == Len(ids) + 1

\* A variant of DocumentsWithMetadata that numbers the chunks from 1.
DocumentsIndexedFromOne(texts, doc_id, filename) ==
    [j \in 1 .. Len(texts) |->
        [page_content |-> texts[j],
         doc_id |-> doc_id,
         source_filename |-> filename,
         chunk_index |-> j]]

\* The Document objects of one upload, in the order of the chunks.
DocumentsWithMetadata(texts, doc_id, filename) ==
    [j \in 1 .. Len(texts) |->
        [page_content |-> texts[j],
         doc_id |-> doc_id,
         source_filename |-> filename,
         chunk_index |-> j - 1]]

\* index_pdf_text up to the call of add_documents: the exception it raises,
\* or the document id and the documents it hands to the store.
IndexPrepare(pdf_bytes, filename, ids) ==
    LET ex == extract_text_from_pdf_bytes(pdf_bytes)
        texts == split_text(ex.raw_text)
        doc_id == NewDocId(ids)
    IN  CASE ex.exc /= "none" ->
               [exc |-> ex.exc, doc_id |-> 0, docs |-> <<>>]
          [] ex.raw_text = <<>> ->
               [exc |-> "ValueError", doc_id |-> 0, docs |-> <<>>]
          [] texts = <<>> ->
               [exc |-> "ValueError", doc_id |-> 0, docs |-> <<>>]
          [] OTHER ->
               [exc |-> "none", doc_id |-> doc_id,
                docs |-> DocumentsWithMetadata(texts, doc_id, filename)]

----------------------------------------------------------------------------
(* main.py: /upload *)

\* The except clauses of upload_pdf, in their order.  An HTTPException
\* raised inside the try block is no ValueError and no RuntimeError: the
\* clause `except Exception` takes it.
UploadExceptStatus(exc) ==
    CASE exc = "ValueError" -> 400
      [] exc = "RuntimeError" -> 500
      [] OTHER -> 500

IdleUpload ==
    [pc |-> "idle", input |-> [content_type |-> "application/pdf",
                               body |-> [kind |-> "empty", n |-> 0],
                               filename |-> "a.pdf"],
     doc_id |-> 0, docs |-> <<>>, written |-> 0, add_calls |-> 0,
     status |-> 0, document_id |-> 0]

UploadDone(req, status, document_id) ==
    [req EXCEPT !.pc = "done", !.status = status, !.document_id = document_id]

\* upload_pdf from its entry to the call of add_documents.
UploadReceive(inp) ==
    /\ phase = "serving"
    /\ up.pc \in {"idle", "done"}
    /\ nUploads < MaxUploads
    /\ nUploads' = nUploads + 1
    /\ LET req == [IdleUpload EXCEPT !.input = inp]
           r == IndexPrepare(inp.body, inp.filename, issued)
       IN  IF inp.content_type /= "application/pdf"
           THEN /\ up' = UploadDone(req, 400, 0)
                /\ UNCHANGED issued
           ELSE IF inp.body.kind = "empty"
           THEN /\ up' = UploadDone(req, UploadExceptStatus("HTTPException"), 0)
                /\ UNCHANGED issued
           ELSE IF r.exc /= "none"
           THEN /\ up' = UploadDone(req, UploadExceptStatus(r.exc), 0)
                /\ UNCHANGED issued
           ELSE /\ up' = [req EXCEPT !.pc = "writing", !.doc_id = r.doc_id,
                                     !.docs = r.docs, !.add_calls = 1]
                /\ issued' = Append(issued, r.doc_id)
    /\ UNCHANGED <<phase, env, store, reported, nAsks, ask, kaVars>>

\* The rows of the next sub-batch of add_documents(..., batch_size=20).
NextBatch(req) ==
    {req.docs[j] : j \in (req.written + 1) ..
                         Min(req.written + BATCH_SIZE, Len(req.docs))}

\* add_documents persists one sub-batch; after the last one index_pdf_text
\* returns doc_id and upload_pdf answers 200 with it.
UploadWriteBatch ==
    /\ up.pc = "writing"
    /\ LET batch == NextBatch(up)
           written == up.written + Cardinality(batch)
       IN  /\ store' = store \cup batch
           /\ IF written = Len(up.docs)
              THEN /\ up' = UploadDone([up EXCEPT !.written = written],
                                       200, up.doc_id)
                   /\ reported' = reported \cup {up.doc_id}
              ELSE /\ up' = [up EXCEPT !.written = written]
                   /\ UNCHANGED reported
    /\ UNCHANGED <<phase, env, issued, nUploads, nAsks, ask, kaVars>>

\* add_documents raises in a sub-batch (embedding or store failure):
\* index_pdf_text raises RuntimeError, upload_pdf answers 500.  Nothing
\* removes the rows of the sub-batches persisted before.
UploadWriteFail ==
    /\ up.pc = "writing"
    /\ up' = UploadDone(up, UploadExceptStatus("RuntimeError"), 0)
    /\ UNCHANGED <<phase, env, store, issued, reported, nUploads, nAsks, ask,
                   kaVars>>

----------------------------------------------------------------------------
(* services.py: retrieval and answering *)

\* A variant of Retriever whose search_kwargs carry no filter.
RetrieverNoFilter(doc_id) == [k |-> TOP_K, filter |-> <<>>]

\* vector_store.as_retriever(search_kwargs={'k': 3, "filter": {"doc_id":
\* doc_id}}): filter is <<d>> for {"doc_id": d} and <<>> for no filter.
Retriever(doc_id) == [k |-> TOP_K, filter |-> <<doc_id>>]

\* The rows a search with this retriever ranks.
Matching(rows, retriever) ==
    IF retriever.filter = <<>>
    THEN rows
    ELSE {c \in rows : c.doc_id = retriever.filter[1]}

\* Similarity of a row to a question, smaller is closer: question 1 is
\* closest to the start of a document, question 2 to its end.
Distance(question, c) ==
    LET pos == c.chunk_index * (MaxUploads + 2) + c.doc_id
    IN  IF question = 2 THEN 0 - pos ELSE pos

\* The k rows closest to the question among the matching ones.
SimilaritySearch(rows, retriever, question) ==
    LET m == Matching(rows, retriever)
    IN  {c \in m :
            Cardinality({d \in m : Distance(question, d) < Distance(question, c)})
                < retriever.k}

\* A variant of AnswerNext without the check `if not relevant_docs`.
AnswerNextNoEmptyCheck(pc, outcome) ==
    CASE pc = "prelim" /\ outcome \in {"found", "empty"} -> "chain_search"
      [] pc = "prelim" -> "done"
      [] pc = "chain_search" /\ outcome = "raised" -> "done"
      [] pc = "chain_search" -> "llm"
      [] OTHER -> "done"

\* A variant of AnswerNext that runs the chain again when the chat model
\* raises.
AnswerNextRetryLlm(pc, outcome) ==
    CASE pc = "prelim" /\ outcome = "found" -> "chain_search"
      [] pc = "prelim" -> "done"
      [] pc = "chain_search" /\ outcome = "raised" -> "done"
      [] pc = "chain_search" -> "llm"
      [] pc = "llm" /\ outcome = "raised" -> "chain_search"
      [] OTHER -> "done"

\* Control flow of answer_question: the step that follows the outcome of
\* the preliminary search ("prelim"), of the search inside the RetrievalQA
\* chain ("chain_search") and of the chat-model call ("llm").
AnswerNext(pc, outcome) ==
    CASE pc = "prelim" /\ outcome = "found" -> "chain_search"
      [] pc = "prelim" -> "done"
      [] pc = "chain_search" /\ outcome = "raised" -> "done"
      [] pc = "chain_search" -> "llm"
      [] OTHER -> "done"

\* What answer_question returns or raises where it ends.
AnswerResult(pc, outcome) ==
    CASE pc = "prelim" /\ outcome = "empty" ->
               [exc |-> "none", answer |-> NOT_FOUND_MSG]
      [] pc = "prelim" /\ outcome = "raised" ->
               [exc |-> "none", answer |-> RETRIEVAL_ERROR_MSG]
      [] pc = "llm" /\ outcome = "ok" ->
               [exc |-> "none", answer |-> LLM_ANSWER]
      [] OTHER -> [exc |-> "RuntimeError", answer |-> ""]

----------------------------------------------------------------------------
(* main.py: /ask *)

\* The except clauses of ask_question, in their order.
AskExceptStatus(exc) ==
    CASE exc = "ValueError" -> 400
      [] exc = "RuntimeError" -> 500
      [] OTHER -> 500

IdleAsk ==
    [pc |-> "idle", doc_id |-> 0, question |-> 0,
     retriever |-> [k |-> TOP_K, filter |-> <<>>],
     relevant_docs |-> {}, context |-> {}, filters |-> {},
     prelim |-> "none", chain |-> "none", llm |-> "none",
     search_calls |-> 0, llm_calls |-> 0,
     status |-> 0, answer |-> ""]

\* The request after a step of answer_question ended with `outcome`.
Advance(req, outcome) ==
    LET nxt == AnswerNext(req.pc, outcome)
        res == AnswerResult(req.pc, outcome)
    IN  IF nxt /= "done"
        THEN [req EXCEPT !.pc = nxt]
        ELSE [req EXCEPT !.pc = "done",
                         !.status = IF res.exc = "none"
                                    THEN 200
                                    ELSE AskExceptStatus(res.exc),
                         !.answer = res.answer]

\* ask_question from its entry to the preliminary search.
AskReceive(doc_id, question) ==
    /\ phase = "serving"
    /\ ask.pc \in {"idle", "done"}
    /\ nAsks < MaxAsks
    /\ nAsks' = nAsks + 1
    /\ LET req == [IdleAsk EXCEPT !.doc_id = doc_id, !.question = question]
       IN  IF doc_id = 0 \/ question = 0
           THEN ask' = [req EXCEPT !.pc = "done", !.status = 400]
           ELSE ask' = [req EXCEPT !.pc = "prelim",
                                   !.retriever = Retriever(doc_id)]
    /\ UNCHANGED <<phase, env, store, issued, reported, nUploads, up, kaVars>>

\* retriever.get_relevant_documents(question) returns.
AskPrelimSearch ==
    /\ ask.pc = "prelim"
    /\ LET found == SimilaritySearch(store, ask.retriever, ask.question)
           outcome == IF found = {} THEN "empty" ELSE "found"
       IN  ask' = Advance([ask EXCEPT !.relevant_docs = found,
                                      !.filters = @ \cup {ask.retriever.filter},
                                      !.prelim = outcome,
                                      !.search_calls = @ + 1],
                          outcome)
    /\ UNCHANGED <<phase, env, store, issued, reported, nUploads, nAsks, up,
                   kaVars>>

\* retriever.get_relevant_documents(question) raises.
AskPrelimSearchFail ==
    /\ ask.pc = "prelim"
    /\ ask' = Advance([ask EXCEPT !.filters = @ \cup {ask.retriever.filter},
                                  !.prelim = "raised",
                                  !.search_calls = @ + 1],
                      "raised")
    /\ UNCHANGED <<phase, env, store, issued, reported, nUploads, nAsks, up,
                   kaVars>>

\* The RetrievalQA chain runs the retriever again; the rows it returns are
\* the context of the prompt.
AskChainSearch ==
    /\ ask.pc = "chain_search"
    /\ LET found == SimilaritySearch(store, ask.retriever, ask.question)
           outcome == IF found = {} THEN "empty" ELSE "found"
       IN  ask' = Advance([ask EXCEPT !.context = found,
                                      !.filters = @ \cup {ask.retriever.filter},
                                      !.chain = outcome,
                                      !.search_calls = @ + 1],
                          outcome)
    /\ UNCHANGED <<phase, env, store, issued, reported, nUploads, nAsks, up,
                   kaVars>>

\* The search inside the chain raises.
AskChainSearchFail ==
    /\ ask.pc = "chain_search"
    /\ ask' = Advance([ask EXCEPT !.filters = @ \cup {ask.retriever.filter},
                                  !.chain = "raised",
                                  !.search_calls = @ + 1],
                      "raised")
    /\ UNCHANGED <<phase, env, store, issued, reported, nUploads, nAsks, up,
                   kaVars>>

\* The chain calls the chat model with the context, and it answers.
AskLlm ==
    /\ ask.pc = "llm"
    /\ ask' = Advance([ask EXCEPT !.llm = "ok", !.llm_calls = @ + 1], "ok")
    /\ UNCHANGED <<phase, env, store, issued, reported, nUploads, nAsks, up,
                   kaVars>>

\* The chat-model call raises.
AskLlmFail ==
    /\ ask.pc = "llm"
    /\ ask' = Advance([ask EXCEPT !.llm = "raised", !.llm_calls = @ + 1],
                      "raised")
    /\ UNCHANGED <<phase, env, store, issued, reported, nUploads, nAsks, up,
                   kaVars>>

----------------------------------------------------------------------------
(* keep_alive.py *)

\* What os.getenv returns: "" stands for None (the variable is unset) and
\* for the empty string, which the code does not tell apart; "1" for a
\* non-empty string.
EnvValues == {"", "1"}
Environments ==
    [RENDER_INSTANCE_ID : EnvValues, WORKER_CLASS : EnvValues,
     RELOADER_MAIN_PID : EnvValues]

\* The truth value of os.getenv(name).
Getenv(e, name) == e[name] /= ""

is_production_env(e) ==
    \/ Getenv(e, "RENDER_INSTANCE_ID")
    \/ Getenv(e, "WORKER_CLASS")
    \/ ~Getenv(e, "RELOADER_MAIN_PID")

\* How client.get / raise_for_status ends.
GetOutcomes == {"ok", "RequestError", "HTTPStatusError", "Exception"}

\* A variant of LoopNext that issues the GET again at once when it failed
\* with a RequestError.
LoopNextRetryOnError(pc, event) ==
    CASE pc = "created" /\ event = "run" -> "awaiting_get"
      [] pc = "awaiting_get" /\ event = "RequestError" -> "awaiting_get"
      [] pc = "awaiting_get" /\ event \in GetOutcomes -> "sleeping"
      [] pc = "sleeping" /\ event = "elapsed" -> "awaiting_get"
      [] pc = "sleeping" /\ event = "CancelledError" -> "finished"
      [] OTHER -> "cancelled"

\* A variant of LoopNext whose handler of CancelledError continues the loop
\* instead of leaving it.
LoopNextSwallowCancel(pc, event) ==
    CASE pc = "created" /\ event = "run" -> "awaiting_get"
      [] pc = "awaiting_get" /\ event \in GetOutcomes -> "sleeping"
      [] pc = "sleeping" /\ event = "elapsed" -> "awaiting_get"
      [] pc = "sleeping" /\ event = "CancelledError" -> "awaiting_get"
      [] OTHER -> "cancelled"

\* Control flow of _self_keep_alive_ping_task_loop.  The task is suspended
\* in client.get ("awaiting_get") or in asyncio.sleep ("sleeping").  Every
\* outcome of the GET leads to the sleep; the sleep that elapses leads to
\* the next GET; a CancelledError in the sleep is caught and ends the loop;
\* a CancelledError in the GET is no Exception (asyncio.CancelledError is a
\* BaseException) and leaves the coroutine, as does one thrown into the
\* task before its first step.
LoopNext(pc, event) ==
    CASE pc = "created" /\ event = "run" -> "awaiting_get"
      [] pc = "awaiting_get" /\ event \in GetOutcomes -> "sleeping"
      [] pc = "sleeping" /\ event = "elapsed" -> "awaiting_get"
      [] pc = "sleeping" /\ event = "CancelledError" -> "finished"
      [] OTHER -> "cancelled"

NoTask ==
    [pc |-> "none", cancel_requested |-> FALSE, cancelled_at |-> "none",
     pings |-> 0, sleeps |-> 0, last |-> "none", created |-> 0]

\* One step of the task: it resumes with `event` and runs to its next
\* suspension point; entering client.get issues one GET.
TaskStep(t, event) ==
    LET nxt == LoopNext(t.pc, event)
    IN  [t EXCEPT !.pc = nxt,
                  !.pings = IF nxt = "awaiting_get" THEN @ + 1 ELSE @,
                  !.sleeps = IF t.pc = "sleeping" /\ event = "elapsed"
                             THEN @ + 1 ELSE @,
                  !.last = IF event \in GetOutcomes THEN event ELSE @,
                  !.cancelled_at = IF event = "CancelledError" THEN t.pc ELSE @,
                  !.cancel_requested = IF event = "CancelledError"
                                       THEN FALSE ELSE @]

TaskDone(t) == t.pc \in {"finished", "cancelled"}

\* The part of lifespan_manager before its yield.
LifespanStartup ==
    /\ phase = "init"
    /\ ls = "init"
    /\ IF is_production_env(env)
       THEN /\ keep_alive_task_ref' = "task"
            /\ ka' = [ka EXCEPT !.pc = "created", !.created = @ + 1]
       ELSE UNCHANGED <<keep_alive_task_ref, ka>>
    /\ ls' = "yielded"
    /\ phase' = "serving"
    /\ UNCHANGED <<env, reqVars>>

\* The task runs for the first time and issues its first GET.
KaTaskStart ==
    /\ ka.pc = "created"
    /\ ~ka.cancel_requested
    /\ ka' = TaskStep(ka, "run")
    /\ UNCHANGED <<phase, env, reqVars, keep_alive_task_ref, ls>>

\* The GET ends, with a response or an exception.
KaGetReturns(outcome) ==
    /\ ka.pc = "awaiting_get"
    /\ ~ka.cancel_requested
    /\ ka' = TaskStep(ka, outcome)
    /\ UNCHANGED <<phase, env, reqVars, keep_alive_task_ref, ls>>

\* The interval has elapsed.
KaSleepReturns ==
    /\ ka.pc = "sleeping"
    /\ ~ka.cancel_requested
    /\ ka.pings < MaxPings
    /\ ka' = TaskStep(ka, "elapsed")
    /\ UNCHANGED <<phase, env, reqVars, keep_alive_task_ref, ls>>

\* The event loop throws CancelledError into the task where it is suspended.
KaCancelled ==
    /\ ka.pc \in {"created", "awaiting_get", "sleeping"}
    /\ ka.cancel_requested
    /\ ka' = TaskStep(ka, "CancelledError")
    /\ UNCHANGED <<phase, env, reqVars, keep_alive_task_ref, ls>>

\* The part of lifespan_manager after its yield, up to its await.
LifespanShutdown ==
    /\ phase = "serving"
    /\ ls = "yielded"
    /\ IF keep_alive_task_ref /= "None" /\ ~TaskDone(ka)
       THEN /\ ka' = [ka EXCEPT !.cancel_requested = TRUE]
            /\ ls' = "awaiting_task"
            /\ phase' = "stopping"
       ELSE /\ ls' = "exited"
            /\ phase' = "stopped"
            /\ UNCHANGED ka
    /\ UNCHANGED <<env, reqVars, keep_alive_task_ref>>

\* `await keep_alive_task_ref` ends, by returning or by raising the
\* CancelledError the handler catches: lifespan_manager exits.
LifespanAwaitReturns ==
    /\ ls = "awaiting_task"
    /\ TaskDone(ka)
    /\ ls' = "exited"
    /\ phase' = "stopped"
    /\ UNCHANGED <<env, reqVars, keep_alive_task_ref, ka>>

----------------------------------------------------------------------------
(* main.py: the application *)

\* app = FastAPI(title="PDF Question Answering API"): no lifespan is given,
\* and main.py does not import keep_alive.
AppLifespan == "default"

\* The server starts the application: it enters the lifespan the
\* application was constructed with; the default one runs no code.
AppStartup ==
    /\ phase = "init"
    /\ AppLifespan = "default"
    /\ phase' = "serving"
    /\ UNCHANGED <<env, reqVars, kaVars>>

----------------------------------------------------------------------------
(* Specifications *)

Init ==
    /\ phase = "init"
    /\ env \in Environments
    /\ store = {}
    /\ issued = <<>>
    /\ reported = {}
    /\ nUploads = 0
    /\ nAsks = 0
    /\ up = IdleUpload
    /\ ask = IdleAsk
    /\ keep_alive_task_ref = "None"
    /\ ka = NoTask
    /\ ls = "init"

\* The application of main.py serving requests.
Next ==
    \/ AppStartup
    \/ \E inp \in UploadInputs : UploadReceive(inp)
    \/ UploadWriteBatch
    \/ UploadWriteFail
    \/ \E d \in AskDocIds, q \in Questions : AskReceive(d, q)
    \/ AskPrelimSearch
    \/ AskPrelimSearchFail
    \/ AskChainSearch
    \/ AskChainSearchFail
    \/ AskLlm
    \/ AskLlmFail

Spec == Init /\ [][Next]_vars

\* lifespan_manager entered and left by a server, with the task it creates.
NextKA ==
    \/ LifespanStartup
    \/ KaTaskStart
    \/ \E o \in GetOutcomes : KaGetReturns(o)
    \/ KaSleepReturns
    \/ KaCancelled
    \/ LifespanShutdown
    \/ LifespanAwaitReturns

SpecKA == Init /\ [][NextKA]_vars

\* The event loop runs every task that is ready: a task into which a
\* CancelledError is to be thrown, and a coroutine whose awaited task is done.
FairSpecKA ==
    /\ SpecKA
    /\ WF_vars(KaCancelled)
    /\ WF_vars(LifespanAwaitReturns)

----------------------------------------------------------------------------
(* Properties *)

InvalidUpload(inp) ==
    \/ inp.content_type /= "application/pdf"
    \/ inp.body.kind \in {"empty", "garbage", "textless", "blank"}

StoredDocIds == {c.doc_id : c \in store}

\* C1: every chunk the preliminary search and the search feeding the chat
\* model return for a question about document A carries doc_id A, whatever
\* other documents the store holds.
C1_RetrievedChunksCarryAskedDocId ==
    \A c \in ask.relevant_docs \cup ask.context : c.doc_id = ask.doc_id

\* Two documents are indexed and a question about one of them got a context.
C1_Witness ==
    /\ ask.context /= {}
    /\ ask.relevant_docs /= {}
    /\ ask.doc_id \in reported
    /\ \E b \in reported : b /= ask.doc_id /\ b \in StoredDocIds

\* C2: an /upload with invalid input (wrong content type, empty file,
\* unparseable PDF, PDF without text, text without chunks) is answered 400,
\* returns no document_id and writes nothing to the store.
C2_InvalidUploadAnswered400 ==
    (up.pc = "done" /\ InvalidUpload(up.input)) =>
        /\ up.status = 400
        /\ up.document_id = 0
        /\ up.add_calls = 0
        /\ up.written = 0

\* C3: when the filtered search of an /ask returns no chunk, the request
\* ends with 200 and the fixed not-found message, and the chat model is not
\* called in that request.
C3_EmptySearchAnswersNotFound ==
    ask.prelim = "empty" =>
        /\ ask.pc = "done"
        /\ ask.status = 200
        /\ ask.answer = NOT_FOUND_MSG
        /\ ask.llm_calls = 0
        /\ ask.llm = "none"

\* A question about a document without rows, while the store holds rows of
\* another document.
C3_Witness ==
    /\ ask.prelim = "empty"
    /\ ask.pc = "done"
    /\ store /= {}

\* C4: when the filtered search of an /ask fails, the request is answered
\* 500, never 200 with an answer, and no search of it runs unfiltered.
C4_SearchFailureAnswered500 ==
    (ask.pc = "done" /\ (ask.prelim = "raised" \/ ask.chain = "raised")) =>
        /\ ask.status = 500
        /\ <<>> \notin ask.filters

\* C5 as stated: one /ask issues at most one similarity search and at most
\* one chat-model call, one /upload at most one add_documents call.
C5_AtMostOneCallOfEachKind ==
    /\ ask.search_calls <= 1
    /\ ask.llm_calls <= 1
    /\ up.add_calls <= 1

\* C5 as amended: one /ask issues at most two similarity searches, the
\* second one only after the preliminary one returned chunks, and at most
\* one chat-model call; one /upload at most one add_documents call; no call
\* follows a call that raised.
C5_NoCallRepeatedAfterFailure ==
    /\ ask.search_calls <= 2
    /\ ask.search_calls = 2 => ask.prelim = "found"
    /\ ask.llm_calls <= 1
    /\ up.add_calls <= 1
    /\ ask.prelim = "raised" =>
           ask.pc = "done" /\ ask.search_calls = 1 /\ ask.llm_calls = 0
    /\ ask.chain = "raised" =>
           ask.pc = "done" /\ ask.search_calls = 2 /\ ask.llm_calls = 0
    /\ ask.llm = "raised" =>
           ask.pc = "done" /\ ask.search_calls = 2 /\ ask.llm_calls = 1

\* An /ask that searched twice and whose chat-model call raised.
C5_Witness ==
    /\ ask.pc = "done"
    /\ ask.search_calls = 2
    /\ ask.llm = "raised"
    /\ ask.status = 500

\* C6: the n documents of an index operation carry the generated doc_id,
\* which is the one returned, and chunk_index 0 .. n-1 in the order of the
\* chunks; no two index operations share a doc_id, and the doc_id of every
\* stored chunk is the one of exactly one index operation.
C6_ChunksCarryOneFreshDocId ==
    /\ up.docs /= <<>> =>
           /\ Len(up.docs) = up.input.body.n
           /\ \A j \in 1 .. Len(up.docs) :
                  /\ up.docs[j].doc_id = up.doc_id
                  /\ up.docs[j].chunk_index = j - 1
                  /\ up.docs[j].page_content = j
                  /\ up.docs[j].source_filename = up.input.filename
    /\ up.status = 200 => up.document_id = up.doc_id /\ up.doc_id /= 0
    /\ \A i, j \in 1 .. Len(issued) : i /= j => issued[i] /= issued[j]
    /\ \A c \in store :
           /\ Cardinality({i \in 1 .. Len(issued) : issued[i] = c.doc_id}) = 1
           /\ c.chunk_index = c.page_content - 1

\* Two uploads were indexed, the second one in two sub-batches.
C6_Witness ==
    /\ up.status = 200
    /\ Len(up.docs) = MaxChunks
    /\ Len(issued) = 2
    /\ Cardinality(StoredDocIds) = 2

\* C7: in a production environment exactly one keep-alive task is started
\* at startup and runs while the application serves; never two; none when
\* only the reloader marker is present.
C7_OneKeepAliveTaskInProduction ==
    /\ ka.created <= 1
    /\ phase = "serving" =>
           IF is_production_env(env)
           THEN /\ ka.created = 1
                /\ keep_alive_task_ref = "task"
                /\ ka.pc \in {"created", "awaiting_get", "sleeping"}
           ELSE ka.created = 0

C9_ShutdownAwaitsCancelledTask ==
    /\ [](ls = "awaiting_task" =>
              ka.cancel_requested \/ ka.cancelled_at /= "none")
    /\ []((ls = "exited" /\ keep_alive_task_ref /= "None") => TaskDone(ka))
    /\ [](ls = "awaiting_task" => <>(ls = "exited" /\ phase = "stopped"))

\* The shutdown has ended after cancelling the task in its GET.
C9_Witness ==
    /\ phase = "stopped"
    /\ ls = "exited"
    /\ ka.cancelled_at = "awaiting_get"
    /\ ka.pc = "cancelled"

\* C10: every stored chunk carries a doc_id that a successful /upload
\* returned, or that of the upload still writing; a failed upload leaves
\* no chunk behind.
C10_StoredChunksWereReported ==
    \A c \in store :
        \/ c.doc_id \in reported
        \/ up.pc = "writing" /\ up.doc_id = c.doc_id

====
